---- MODULE Spec2Model ----
(***************************************************************************)
(* Model of maze/src/main.rs: Maze::grid (rasterisation of a scene into a  *)
(* grid of unit cells) and Grid::path (the A*-style search with its        *)
(* reconstruction of the path from the came_from links).                   *)
(*                                                                         *)
(* Real-valued scene coordinates are represented in half units (the        *)
(* integer h stands for h/2), so floor, ceil and round are computed as the *)
(* code computes them on multiples of 1/2.                                 *)
(***************************************************************************)
EXTENDS Integers, Sequences, FiniteSets, TLC

\* ---------------------------------------------------------------- bounds
GridW == 2
GridH == 4
MaxWalls == 2
MaxHalf == 4

\* i32::MAX, the score of a node record created by or_insert
I32Max == 2147483647

VARIABLES
    maze,           \* the Maze the grid is built from (half units)
    grid,           \* the Grid: start, end, width, height, walls
    open_set,       \* BinaryHeap<Node>: the pending entries
    open_set_map,   \* HashSet of the coordinates that have a pending entry
    nodes,          \* HashMap coord -> Node: the canonical record per coordinate
    found,          \* Option<Node>: the popped target entry
    current,        \* the entry taken by the last open_set.pop()
    popped_from,    \* the content of open_set when current was popped
    path,           \* the Vec built by reconstruct, and the returned value
    coord,          \* reconstruct's cursor
    pc              \* position in main / Grid::path

vars == <<maze, grid, open_set, open_set_map, nodes, found, current,
          popped_from, path, coord, pc>>

None == [none |-> TRUE]

\* ------------------------------------------------------- Maze and Maze::grid
floor(h) == h \div 2
ceil(h) == -((-h) \div 2)
\* f64::round: to nearest, ties away from zero
round(h) == IF h >= 0 THEN (h + 1) \div 2 ELSE -((1 - h) \div 2)

\* mutant of WallCells: the far edges are rounded down instead of up
WallCellsRoundedDown(m, w) ==
    LET min_x == floor(w[1] - m.origin[1])
        min_y == floor(w[2] - m.origin[2])
        max_x == floor(w[1] - m.origin[1] + w[3])
        max_y == floor(w[2] - m.origin[2] + w[4])
    IN  {<<x, y>> : x \in min_x .. (max_x - 1), y \in min_y .. (max_y - 1)}

\* the cells one wall rectangle w = <<x, y, width, height>> inserts
WallCells(m, w) ==
    LET min_x == floor(w[1] - m.origin[1])
        min_y == floor(w[2] - m.origin[2])
        max_x == ceil(w[1] - m.origin[1] + w[3])
        max_y == ceil(w[2] - m.origin[2] + w[4])
    IN  {<<x, y>> : x \in min_x .. (max_x - 1), y \in min_y .. (max_y - 1)}

MazeGrid(m) ==
    [ start  |-> <<round(m.start[1] - m.origin[1]), round(m.start[2] - m.origin[2])>>,
      end    |-> <<round(m.end[1] - m.origin[1]), round(m.end[2] - m.origin[2])>>,
      width  |-> ceil(m.size[1]),
      height |-> ceil(m.size[2]),
      walls  |-> UNION {WallCells(m, m.walls[i]) : i \in DOMAIN m.walls} ]

\* ------------------------------------------------------------ Node and d
Node(c, f, g, cf) == [coord |-> c, f_score |-> f, g_score |-> g, came_from |-> cf]

d(a, b) == (a[1] - b[1]) + (a[2] - b[2])

\* impl Ord for Node: self.cmp(other)
CmpInt(a, b) == IF a < b THEN "Less" ELSE IF a > b THEN "Greater" ELSE "Equal"

\* mutant of cmp: the g_score is not compared
CmpFOnly(self, other) == CmpInt(other.f_score, self.f_score)

cmp(self, other) ==
    IF CmpInt(other.f_score, self.f_score) # "Equal"
    THEN CmpInt(other.f_score, self.f_score)
    ELSE CmpInt(self.g_score, other.g_score)

\* BinaryHeap::pop returns a greatest entry; which one among entries that
\* compare Equal is not specified, so every greatest entry is a possible pop
Greatest(heap) == {n \in heap : \A m \in heap : cmp(m, n) # "Greater"}

\* ------------------------------------------------------------ Grid::path
StartNode == Node(grid.start, d(grid.start, grid.end), 0, grid.start)

\* mutant of NeighborCoords: the first neighbor is one row off
NeighborCoordsDiag(c) ==
    << <<c[1] - 1, c[2] - 1>>, <<c[1] + 1, c[2]>>, <<c[1], c[2] - 1>>, <<c[1], c[2] + 1>> >>

NeighborCoords(c) ==
    << <<c[1] - 1, c[2]>>, <<c[1] + 1, c[2]>>, <<c[1], c[2] - 1>>, <<c[1], c[2] + 1>> >>

\* mutant of Keep: the walls are not consulted
KeepNoWalls(c) ==
    IF c[1] < 0 \/ c[2] < 0 \/ c[1] >= grid.width \/ c[2] >= grid.height
    THEN FALSE
    ELSE TRUE

\* mutant of Keep: the upper bounds are tested with > instead of >=
KeepOffByOne(c) ==
    IF c \in grid.walls
    THEN FALSE
    ELSE IF c[1] < 0 \/ c[2] < 0 \/ c[1] > grid.width \/ c[2] > grid.height
    THEN FALSE
    ELSE TRUE

\* the filter of the neighbors closure
Keep(c) ==
    IF c \in grid.walls
    THEN FALSE
    ELSE IF c[1] < 0 \/ c[2] < 0 \/ c[1] >= grid.width \/ c[2] >= grid.height
    THEN FALSE
    ELSE TRUE

neighbors(node) == SelectSeq(NeighborCoords(node.coord), Keep)

\* mutant of Relaxed: came_from is set to the node's own coordinate
RelaxedSelfLink(cur, ncoord, tentative) ==
    Node(ncoord, tentative + d(grid.end, ncoord), tentative, ncoord)

\* the record written when tentative < n.g_score
Relaxed(cur, ncoord, tentative) ==
    Node(ncoord, tentative + d(grid.end, ncoord), tentative, cur.coord)

\* one iteration of the for loop over neighbors(&current), on the search
\* state st = [nodes, open_set, open_set_map]
Relax(st, cur, ncoord) ==
    LET tentative == cur.g_score + 1
        n == IF ncoord \in DOMAIN st.nodes
             THEN st.nodes[ncoord]
             ELSE Node(ncoord, I32Max, I32Max, cur.coord)
        n2 == IF tentative < n.g_score THEN Relaxed(cur, ncoord, tentative) ELSE n
        push == tentative < n.g_score /\ ncoord \notin st.open_set_map
    IN  [ nodes        |-> [c \in DOMAIN st.nodes \cup {ncoord} |->
                               IF c = ncoord THEN n2 ELSE st.nodes[c]],
          open_set     |-> IF push THEN st.open_set \cup {n2} ELSE st.open_set,
          open_set_map |-> IF push THEN st.open_set_map \cup {ncoord}
                                   ELSE st.open_set_map ]

RECURSIVE ForNeighbors(_, _, _, _)
ForNeighbors(st, cur, coords, i) ==
    IF i > Len(coords)
    THEN st
    ELSE ForNeighbors(Relax(st, cur, coords[i]), cur, coords, i + 1)

\* mutant of IsTarget: the start node is never taken for the target
IsTargetNotStart(cur) == cur.coord = grid.end /\ cur.coord # grid.start

\* if current.coord == self.end
IsTarget(cur) == cur.coord = grid.end

\* ------------------------------------------------------------- the grids
Cells == (0 .. GridW - 1) \X (0 .. GridH - 1)
Coords == (-1 .. GridW) \X (-1 .. GridH)
WallSets == {ws \in SUBSET Cells : Cardinality(ws) <= MaxWalls}

NoMaze == [origin |-> <<0, 0>>, start |-> <<0, 0>>, end |-> <<0, 0>>,
           size |-> <<0, 0>>, walls |-> <<>>]

\* the state of Grid::path after lines 128-140 and `let mut found = None`
SearchInit ==
    /\ open_set = {StartNode}
    /\ open_set_map = {grid.start}
    /\ nodes = [c \in {grid.start} |-> StartNode]
    /\ found = None
    /\ current = None
    /\ popped_from = {}
    /\ path = <<>>
    /\ coord = grid.start
    /\ pc = "search"

Init ==
    /\ maze = NoMaze
    /\ grid \in [start : Coords, end : Coords, width : {GridW}, height : {GridH},
                 walls : WallSets]
    /\ SearchInit

\* pop an entry that is not the target and relax its neighbors
Expand ==
    /\ pc = "search"
    /\ open_set # {}
    /\ \E cur \in Greatest(open_set) :
          /\ ~IsTarget(cur)
          /\ LET st == ForNeighbors(
                           [nodes |-> nodes,
                            open_set |-> open_set \ {cur},
                            open_set_map |-> open_set_map \ {cur.coord}],
                           cur, neighbors(cur), 1)
             IN  /\ nodes' = st.nodes
                 /\ open_set' = st.open_set
                 /\ open_set_map' = st.open_set_map
          /\ current' = cur
          /\ popped_from' = open_set
    /\ UNCHANGED <<maze, grid, found, path, coord, pc>>

\* pop the target: found = Some(current); break; reconstruct starts
Found ==
    /\ pc = "search"
    /\ open_set # {}
    /\ \E cur \in Greatest(open_set) :
          /\ IsTarget(cur)
          /\ open_set' = open_set \ {cur}
          /\ open_set_map' = open_set_map \ {cur.coord}
          /\ current' = cur
          /\ popped_from' = open_set
          /\ found' = cur
          /\ coord' = cur.coord
    /\ path' = <<>>
    /\ pc' = "reconstruct"
    /\ UNCHANGED <<maze, grid, nodes>>

\* the open set is exhausted: return vec![]
Exhausted ==
    /\ pc = "search"
    /\ open_set = {}
    /\ path' = <<>>
    /\ pc' = "done"
    /\ UNCHANGED <<maze, grid, open_set, open_set_map, nodes, found, current,
                   popped_from, coord>>

MaxPath == (GridW + 2) * (GridH + 2)

\* one iteration of reconstruct's while loop; unwrap() of a missing record panics
Walk ==
    /\ pc = "reconstruct"
    /\ coord # grid.start
    /\ Len(path) < MaxPath
    /\ path' = Append(path, coord)
    /\ IF coord \in DOMAIN nodes
       THEN coord' = nodes[coord].came_from /\ pc' = pc
       ELSE coord' = coord /\ pc' = "panic"
    /\ UNCHANGED <<maze, grid, open_set, open_set_map, nodes, found, current,
                   popped_from>>

\* mutant of Returned: start_cell is not pushed
ReturnedNoStart(p) == p

\* path.push(self.start); path
Returned(p) == Append(p, grid.start)

Finish ==
    /\ pc = "reconstruct"
    /\ coord = grid.start
    /\ path' = Returned(path)
    /\ pc' = "done"
    /\ UNCHANGED <<maze, grid, open_set, open_set_map, nodes, found, current,
                   popped_from, coord>>

Next == Expand \/ Found \/ Exhausted \/ Walk \/ Finish

Spec == Init /\ [][Next]_vars

\* ----------------------------------------------------- main: maze.grid()
Halves == -MaxHalf .. MaxHalf
Rects == Halves \X Halves \X (0 .. MaxHalf) \X (0 .. MaxHalf)
Origins == {-1, 0, 1} \X {-1, 0, 1}

InitMaze ==
    /\ maze \in [origin : Origins, start : {<<1, 1>>}, end : {<<3, 5>>, <<-1, 2>>},
                  size : {<<3, 4>>}, walls : {<<r>> : r \in Rects}
                                         \cup {<<r, <<0, 0, 2, 2>> >> : r \in Rects}]
    /\ grid = MazeGrid(NoMaze)
    /\ open_set = {}
    /\ open_set_map = {}
    /\ nodes = <<>>
    /\ found = None
    /\ current = None
    /\ popped_from = {}
    /\ path = <<>>
    /\ coord = <<0, 0>>
    /\ pc = "main"

\* let grid = maze.grid();
GridStep ==
    /\ pc = "main"
    /\ grid' = MazeGrid(maze)
    /\ pc' = "grid"
    /\ UNCHANGED <<maze, open_set, open_set_map, nodes, found, current,
                   popped_from, path, coord>>

SpecGrid == InitMaze /\ [][GridStep]_vars

\* ------------------------------------------ the notions the claims speak of
InBounds(c) == c[1] >= 0 /\ c[2] >= 0 /\ c[1] < grid.width /\ c[2] < grid.height
ValidCell(c) == InBounds(c) /\ c \notin grid.walls
Abs(i) == IF i < 0 THEN -i ELSE i
Adjacent(a, b) == Abs(a[1] - b[1]) + Abs(a[2] - b[2]) = 1
Steps(c) == {<<c[1] - 1, c[2]>>, <<c[1] + 1, c[2]>>, <<c[1], c[2] - 1>>, <<c[1], c[2] + 1>>}

\* breadth-first layers from start_cell over in-bounds, non-blocked cells:
\* the number of unit steps of a shortest route to t, or -1 when there is none
RECURSIVE Layers(_, _, _, _)
Layers(front, seen, k, t) ==
    IF t \in front THEN k
    ELSE IF front = {} THEN -1
    ELSE LET nxt == {c \in UNION {Steps(x) : x \in front} : ValidCell(c)} \ seen
         IN  Layers(nxt, seen \cup nxt, k + 1, t)

Dist(t) == Layers({grid.start}, {grid.start}, 0, t)

Returned_ == pc = "done" /\ path # <<>>

C2_Shortest ==
    Returned_ => Len(path) - 1 = Dist(grid.end)

C4_EmptyIffUnreachable ==
    (pc = "done" /\ ValidCell(grid.start))
    => (path = <<>> <=> Dist(grid.end) = -1)

\* start_cell shut in by blocked cells, end_cell a free cell elsewhere
C4_Witness ==
    /\ pc = "done" /\ path = <<>>
    /\ ValidCell(grid.start) /\ ValidCell(grid.end)
    /\ \E c \in Steps(grid.start) : c \in grid.walls
    /\ \A c \in Steps(grid.start) : ~ValidCell(c)

\* C5: with start_cell = end_cell the result is the one-element sequence of
\* that cell, found on the first pop with no neighbor relaxed.
C5_Trivial ==
    grid.start = grid.end =>
        /\ pc = "search" => current = None
        /\ pc # "search" =>
              /\ found = StartNode
              /\ DOMAIN nodes = {grid.start}
              /\ open_set = {}
        /\ pc = "done" => path = <<grid.start>>

C5_Witness ==
    /\ pc = "done" /\ grid.start = grid.end /\ path = <<grid.start>>
    /\ ~InBounds(grid.start)

\* C7: a returned non-empty path is a walk of unit steps, and each of its
\* cells other than start_cell is in bounds and not blocked.
C7_UnitStepWalk ==
    Returned_ =>
        /\ \A i \in 1 .. Len(path) - 1 : Adjacent(path[i], path[i + 1])
        /\ \A i \in 1 .. Len(path) : path[i] # grid.start => ValidCell(path[i])

C7_Witness ==
    Returned_ /\ Len(path) >= 4 /\ grid.walls # {} /\ ~InBounds(grid.start)

\* C8: the g_score carried by a popped entry is the length of a shortest
\* route from start_cell to its coordinate.
C8_PoppedOptimal ==
    current # None => current.g_score = Dist(current.coord)

\* C9 (as stated): the popped entry has the smallest f_score of the pending
\* entries and, among those of that f_score, the smallest g_score.
C9_TiesAscendingG ==
    current # None =>
        \A m \in popped_from :
            /\ current.f_score <= m.f_score
            /\ m.f_score = current.f_score => current.g_score <= m.g_score

\* C9 (amended): the popped entry has the smallest f_score of the pending
\* entries and, among those of that f_score, the largest g_score.
C9_TiesDescendingG ==
    current # None =>
        \A m \in popped_from :
            /\ current.f_score <= m.f_score
            /\ m.f_score = current.f_score => current.g_score >= m.g_score

C9_Witness ==
    /\ current # None
    /\ \E m \in popped_from : m.f_score = current.f_score /\ m.g_score < current.g_score

\* C10: Grid::path terminates: the search loop ends, and the walk along the
\* came_from links reaches start_cell without meeting a missing record.
\* Stated with a variant: Rank is a natural number that every step of
\* Grid::path strictly decreases, a step is possible until the function has
\* returned, and the walk never meets a coordinate without a record.
GCap == (GridW + 2) * (GridH + 2)
Recorded(c) == IF c \in DOMAIN nodes THEN nodes[c].g_score ELSE GCap

\* the sum of Recorded over S, as the size of a set with Recorded(c) elements
\* for each c
SumRecorded(S) == Cardinality(UNION {{c} \X (1 .. Recorded(c)) : c \in S})

Rank ==
    IF pc = "search"
    THEN GCap + 2 + 2 * SumRecorded(Cells \cup {grid.start}) + Cardinality(open_set)
    ELSE IF pc = "reconstruct"
    THEN 1 + Recorded(coord)
    ELSE 0

\* some step of Grid::path is possible: a pop or the return of vec![] in the
\* search loop, an iteration or the end of reconstruct's loop
CanStep ==
    \/ pc = "search" /\ (open_set = {} \/ Greatest(open_set) # {})
    \/ pc = "reconstruct" /\ (coord = grid.start \/ Len(path) < MaxPath)

\* C10: every step of Grid::path strictly decreases Rank, which stays a
\* natural number; no step panics; and a step is possible until the return.
C10_Terminates ==
    [][/\ Rank' < Rank
       /\ Rank' >= 0
       /\ pc' # "panic"
       /\ pc' # "done" => CanStep']_vars

C10_Witness ==
    pc = "done" /\ Len(path) >= 3 /\ Cardinality(DOMAIN nodes) = GridW * GridH

\* C6: every unit cell whose open interior meets the interior of a wall
\* rectangle (translated by origin) is in the grid's walls.  In half units
\* the cell (x, y) is the square (2x, 2x+2) x (2y, 2y+2).
Max2(a, b) == IF a > b THEN a ELSE b
Min2(a, b) == IF a < b THEN a ELSE b
Meets(lo1, hi1, lo2, hi2) == Max2(lo1, lo2) < Min2(hi1, hi2)
Around == (-MaxHalf - 2) .. (MaxHalf + 2)

\* C6: in the grid built by Maze::grid, every cell that meets a wall
\* rectangle's interior is in walls.
C6_Coverage ==
    pc = "grid" =>
        \A i \in DOMAIN maze.walls : \A x \in Around : \A y \in Around :
            LET w == maze.walls[i]
                x0 == w[1] - maze.origin[1]
                y0 == w[2] - maze.origin[2]
            IN  (Meets(2 * x, 2 * x + 2, x0, x0 + w[3])
                   /\ Meets(2 * y, 2 * y + 2, y0, y0 + w[4]))
                => <<x, y>> \in grid.walls

\* the rectangle at x = 1.5 of width 2 blocks the columns 1, 2 and 3
C6_Witness ==
    /\ pc = "grid"
    /\ maze.origin = <<0, 0>>
    /\ maze.walls = << <<3, 1, 4, 2>> >>
    /\ grid.walls = {1, 2, 3} \X {0, 1}

====
